---- MODULE Spec2Model ----
(***************************************************************************)
(* MathInterpreter (src/math_interpreter.cpp, src/math_interpreter.h):     *)
(* tokenizer, shunting-yard conversion, validation/tagging of the postfix  *)
(* program, variable table and evaluation, as one state machine over the   *)
(* fields of a single MathInterpreter object.                              *)
(*                                                                         *)
(* A std::string is a sequence of one-character strings.  An InputBit is   *)
(* the record [first |-> lexeme, second |-> BitType], a Variable is the    *)
(* record [first |-> name, second |-> value].  A double is the record      *)
(* [n |-> integer, t |-> term]: with t = << >> it is the exactly           *)
(* represented integer n, otherwise it is the value denoted by the term t  *)
(* (a result that is not an integer of the exactly modelled range).        *)
(***************************************************************************)
EXTENDS Integers, Sequences, FiniteSets, TLC

VARIABLES
    m_inputExpr,      \* std::string m_inputExpr
    m_inputBits,      \* std::vector<InputBit> m_inputBits
    m_rpn,            \* std::vector<InputBit> m_rpn
    m_varTable,       \* VarTable m_varTable
    m_operatorStack,  \* std::stack<InputBit> m_operatorStack (top = last)
    m_outputQueue,    \* std::queue<InputBit> m_outputQueue (front = first)
    m_numberStack,    \* std::stack<double> m_numberStack (top = last)
    lastCall,         \* the public operation called last
    lastError,        \* how that call ended: "none" or the exception thrown
    errText,          \* the text carried by the exception
    result,           \* the value returned by the last calculate()
    hist,             \* history of the calls made on this object
    scan_it           \* iterator of the scanning loop of m_make_input_bits
                      \* while init_with_expr is taken step by step, else 0

vars == << m_inputExpr, m_inputBits, m_rpn, m_varTable, m_operatorStack,
           m_outputQueue, m_numberStack, lastCall, lastError, errText,
           result, hist, scan_it >>

----------------------------------------------------------------------------
(* Bounds of the exploration *)

\* pieces of expression text one lifetime of the object may be given
MaxPieces == 3
\* calls of init_with_expr in one lifetime
MaxInits == 2
\* calls of set_value in one lifetime
MaxSets == 2
\* calls of calculate in one lifetime
MaxCalcs == 2
\* integers of larger magnitude are kept as terms
ExactLimit == 10000
\* pieces of the one expression text given to a fresh interpreter
MaxFreshPieces == 3
\* pieces of the one arithmetic expression text that is evaluated
MaxEvalPieces == 5
\* pieces of the one expression text that is scanned step by step
MaxScanPieces == 3

----------------------------------------------------------------------------
(* Strings and stacks *)

Str1(a) == << a >>
Str2(a, b) == << a, b >>
Str3(a, b, c) == << a, b, c >>
Str4(a, b, c, d) == << a, b, c, d >>
Str5(a, b, c, d, e) == << a, b, c, d, e >>

Top(s) == s[Len(s)]
Pop(s) == SubSeq(s, 1, Len(s) - 1)

RECURSIVE Concat(_)
Concat(ss) == IF ss = << >> THEN << >> ELSE Head(ss) \o Concat(Tail(ss))

Digits == << "0", "1", "2", "3", "4", "5", "6", "7", "8", "9" >>
DigitSet == { Digits[i] : i \in 1..10 }
DigitVal(c) == (CHOOSE i \in 1..10 : Digits[i] = c) - 1

WhiteSpace == { " ", "\t", "\n", "\r" }

\* std::to_string of a non-negative int / size_t
RECURSIVE to_string(_)
to_string(n) ==
    IF n < 10 THEN Str1(Digits[n + 1])
    ELSE to_string(n \div 10) \o Str1(Digits[(n % 10) + 1])

\* std::to_string((size_t)0 - 1): the wrapped 64-bit value
SizeMaxString ==
    << "1","8","4","4","6","7","4","4","0","7","3","7","0","9","5","5","1",
       "6","1","5" >>

\* std::to_string(M_PI): "%f" formatting, six decimals
PiString == << "3", ".", "1", "4", "1", "5", "9", "3" >>

----------------------------------------------------------------------------
(* Token classification: m_isOperator, m_isNumber, m_isFunction,           *)
(* m_isVariable, m_precedence.  An iterator is an index 1..Len(s)+1, and   *)
(* itEnd is Len(s)+1.                                                      *)

InputBit(first, second) == [first |-> first, second |-> second]
Variable(first, second) == [first |-> first, second |-> second]

RECURSIVE m_isOperator(_, _)
m_isOperator(s, it) ==
    IF it = Len(s) + 1 THEN FALSE
    ELSE LET token == s[it] IN
         CASE token \in {"+", "-"} ->
                  IF it = 1 THEN FALSE
                  ELSE IF s[it - 1] = "(" THEN FALSE
                  ELSE IF m_isOperator(s, it - 1) THEN FALSE
                  ELSE TRUE
           [] token \in {"*", "/", "^"} -> TRUE
           [] OTHER -> FALSE

\* the number of nested activations of m_isOperator that the call at
\* iterator it makes, itself included
RECURSIVE IsOperatorCalls(_, _)
IsOperatorCalls(s, it) ==
    IF it = Len(s) + 1 THEN 1
    ELSE LET token == s[it] IN
         CASE token \in {"+", "-"} ->
                  IF it = 1 THEN 1
                  ELSE IF s[it - 1] = "(" THEN 1
                  ELSE 1 + IsOperatorCalls(s, it - 1)
           [] OTHER -> 1

\* m_isNumber without the case of a '-' that comes after an operator
m_isNumber_nochain(s, it) ==
    IF it = Len(s) + 1 THEN FALSE
    ELSE LET token == s[it] IN
         CASE token \in DigitSet \cup {"."} -> TRUE
           [] token = "-" ->
                  IF it = 1 THEN TRUE
                  ELSE IF s[it - 1] = "(" THEN TRUE
                  ELSE FALSE
           [] OTHER -> FALSE

m_isNumber(s, it) ==
    IF it = Len(s) + 1 THEN FALSE
    ELSE LET token == s[it] IN
         CASE token \in DigitSet \cup {"."} -> TRUE
           [] token = "-" ->
                  IF it = 1 THEN TRUE
                  ELSE IF s[it - 1] = "(" THEN TRUE
                  ELSE IF m_isOperator(s, it - 1) THEN TRUE
                  ELSE FALSE
           [] OTHER -> FALSE

\* enum class FUNCTION: the ordinal of each enumerator
FunctionNames ==
    << << Str3("L","O","G"), Str3("l","o","g") >>,
       << Str5("L","O","G","1","0"), Str5("l","o","g","1","0") >>,
       << Str3("S","I","N"), Str3("s","i","n") >>,
       << Str3("C","O","S"), Str3("c","o","s") >>,
       << Str3("T","A","N"), Str3("t","a","n") >>,
       << Str3("C","O","T"), Str3("c","o","t") >>,
       << Str4("A","S","I","N"), Str4("a","s","i","n") >>,
       << Str4("A","C","O","S"), Str4("a","c","o","s") >>,
       << Str4("A","T","A","N"), Str4("a","t","a","n") >>,
       << Str5("A","T","A","N","2"), Str5("a","t","a","n","2") >>,
       << Str4("A","C","O","T"), Str4("a","c","o","t") >>,
       << Str3("D","E","G"), Str3("d","e","g") >>,
       << Str3("R","A","D"), Str3("r","a","d") >>,
       << Str4("S","Q","R","T"), Str4("s","q","r","t") >>,
       << Str3("E","X","P"), Str3("e","x","p") >>,
       << Str3("A","B","S"), Str3("a","b","s") >> >>

FUNCTION_NONE == 0
FUNCTION_ATAN2 == 10
FUNCTION_ABS == 16

Lower == << "a","b","c","d","e","f","g","h","i","j","k","l","m",
           "n","o","p","q","r","s","t","u","v","w","x","y","z" >>
Upper == << "A","B","C","D","E","F","G","H","I","J","K","L","M",
           "N","O","P","Q","R","S","T","U","V","W","X","Y","Z" >>
ToUpper(str) ==
    [i \in 1..Len(str) |->
        IF \E k \in 1..26 : Lower[k] = str[i]
        THEN Upper[CHOOSE k \in 1..26 : Lower[k] = str[i]] ELSE str[i]]

\* m_isFunction comparing without regard to letter case
m_isFunction_anycase(token) ==
    IF \E i \in 1..Len(FunctionNames) : ToUpper(token) = FunctionNames[i][1]
    THEN CHOOSE i \in 1..Len(FunctionNames) : ToUpper(token) = FunctionNames[i][1]
    ELSE FUNCTION_NONE

\* the ordinal of the enumerator the token names, FUNCTION::NONE if none
m_isFunction(token) ==
    IF \E i \in 1..Len(FunctionNames) :
           token = FunctionNames[i][1] \/ token = FunctionNames[i][2]
    THEN CHOOSE i \in 1..Len(FunctionNames) :
           token = FunctionNames[i][1] \/ token = FunctionNames[i][2]
    ELSE FUNCTION_NONE

\* m_isVariable returning the index of the entry found, not index + 1
m_isVariable_index(varTable, token) ==
    IF \E i \in 1..Len(varTable) : varTable[i].first = token
    THEN (CHOOSE i \in 1..Len(varTable) :
             /\ varTable[i].first = token
             /\ \A j \in 1..(i - 1) : varTable[j].first # token) - 1
    ELSE 0

\* m_isVariable returning the loop's end index when no entry matches
m_isVariable_end(varTable, token) ==
    IF \E i \in 1..Len(varTable) : varTable[i].first = token
    THEN CHOOSE i \in 1..Len(varTable) :
             /\ varTable[i].first = token
             /\ \A j \in 1..(i - 1) : varTable[j].first # token
    ELSE Len(varTable)

\* index + 1 of the first entry of the table named token, 0 if there is none
m_isVariable(varTable, token) ==
    IF \E i \in 1..Len(varTable) : varTable[i].first = token
    THEN CHOOSE i \in 1..Len(varTable) :
             /\ varTable[i].first = token
             /\ \A j \in 1..(i - 1) : varTable[j].first # token
    ELSE 0

m_precedence(operatorBit) ==
    LET op == operatorBit.first IN
    IF op = Str1("+") \/ op = Str1("-") THEN 2
    ELSE IF op = Str1("*") \/ op = Str1("/") \/ op = Str1("%") THEN 3
    ELSE IF op = Str1("^") THEN 4
    ELSE IF m_isFunction(op) # 0 THEN 5
    ELSE 1

----------------------------------------------------------------------------
(* Tokenizer: m_clear_whitespaces, m_extract_*, m_make_input_bits.  An     *)
(* extraction returns the bit and the iterator after it.                   *)

\* m_clear_whitespaces returning its argument
m_clear_whitespaces_keep(str) == str

\* operator>> skips the whitespace between the tokens it appends
m_clear_whitespaces(str) == SelectSeq(str, LAMBDA c : c \notin WhiteSpace)

RECURSIVE OperatorEnd(_, _)
OperatorEnd(s, it) ==
    IF m_isOperator(s, it) THEN OperatorEnd(s, it + 1) ELSE it

m_extract_operator(s, it) ==
    LET e == OperatorEnd(s, it) IN
    [bit |-> InputBit(SubSeq(s, it, e - 1), "OPERATOR"), it |-> e]

RECURSIVE NumberEnd(_, _)
NumberEnd(s, it) ==
    IF m_isNumber(s, it) THEN NumberEnd(s, it + 1) ELSE it

m_extract_number(s, it) ==
    LET e == NumberEnd(s, it) IN
    [bit |-> InputBit(SubSeq(s, it, e - 1), "NUMBER"), it |-> e]

RECURSIVE VariableEnd(_, _)
VariableEnd(s, it) ==
    IF it # Len(s) + 1 /\ s[it] # "$" THEN VariableEnd(s, it + 1) ELSE it

m_extract_variable(s, it) ==
    LET b == IF it # Len(s) + 1 THEN it + 1 ELSE it    \* skip the left $
        e == VariableEnd(s, b)
    IN  [bit |-> InputBit(SubSeq(s, b, e - 1), "VARIABLE"),
         it |-> IF e # Len(s) + 1 THEN e + 1 ELSE e]    \* skip the right $

\* the while loop of m_extract_function stopping at an operator character
\* as well
RECURSIVE FunctionEnd_operator(_, _)
FunctionEnd_operator(s, it) ==
    IF it # Len(s) + 1 /\ s[it] \notin { "(", "+", "-", "*", "/", "^" }
    THEN FunctionEnd_operator(s, it + 1) ELSE it

RECURSIVE FunctionEnd(_, _)
FunctionEnd(s, it) ==
    IF it # Len(s) + 1 /\ s[it] # "(" THEN FunctionEnd(s, it + 1) ELSE it

m_extract_function(s, it) ==
    LET e == FunctionEnd(s, it) IN
    [bit |-> InputBit(SubSeq(s, it, e - 1), "FUNCTION"), it |-> e]

m_extract_parenthesis(s, it) ==
    IF it # Len(s) + 1
    THEN IF s[it] = "(" THEN [bit |-> InputBit(Str1("("), "LPARENTHESIS"), it |-> it + 1]
         ELSE IF s[it] = ")" THEN [bit |-> InputBit(Str1(")"), "RPARENTHESIS"), it |-> it + 1]
         ELSE [bit |-> InputBit(<< >>, "LPARENTHESIS"), it |-> it + 1]
    ELSE [bit |-> InputBit(<< >>, "LPARENTHESIS"), it |-> it]

\* one iteration of the scanning loop at iterator it
ExtractBit(s, it) ==
    IF m_isNumber(s, it) THEN m_extract_number(s, it)
    ELSE IF m_isOperator(s, it) THEN m_extract_operator(s, it)
    ELSE IF s[it] = "$" THEN m_extract_variable(s, it)
    ELSE IF s[it] = "(" \/ s[it] = ")" THEN m_extract_parenthesis(s, it)
    ELSE m_extract_function(s, it)

\* the scanning loop: the bits pushed back on inputBits from iterator it on
RECURSIVE ScanBits(_, _, _)
ScanBits(s, it, inputBits) ==
    IF it = Len(s) + 1 THEN inputBits
    ELSE LET x == ExtractBit(s, it) IN ScanBits(s, x.it, Append(inputBits, x.bit))

\* m_make_input_bits: the exception thrown ("none" if none) and m_inputBits
m_make_input_bits(inputExpr, inputBits) ==
    LET inputExprNoWS == m_clear_whitespaces(inputExpr) IN
    IF inputExprNoWS = << >>
    THEN [err |-> "BAD_INIT", inputBits |-> inputBits]
    ELSE [err |-> "none", inputBits |-> ScanBits(inputExprNoWS, 1, inputBits)]

----------------------------------------------------------------------------
(* Shunting-yard conversion: m_handle_operator, m_handle_variable,         *)
(* m_handle_rParenthesis, m_make_rpn.  The working state is the record     *)
(* [bits, ops, out, vt, err] of m_inputBits, m_operatorStack,              *)
(* m_outputQueue, m_varTable and the exception thrown so far.              *)

\* the while loop popping only the tops of strictly higher precedence
RECURSIVE PopHigher_strict(_, _)
PopHigher_strict(w, operatorBit) ==
    IF w.ops = << >> THEN w
    ELSE IF m_precedence(Top(w.ops)) <= m_precedence(operatorBit) THEN w
    ELSE PopHigher_strict([w EXCEPT !.out = Append(w.out, Top(w.ops)),
                                    !.ops = Pop(w.ops)], operatorBit)

\* the while loop of m_handle_operator: pop to the output queue every top
\* whose precedence is not below the operator's
RECURSIVE PopHigher(_, _)
PopHigher(w, operatorBit) ==
    IF w.ops = << >> THEN w
    ELSE IF m_precedence(Top(w.ops)) < m_precedence(operatorBit) THEN w
    ELSE PopHigher([w EXCEPT !.out = Append(w.out, Top(w.ops)),
                             !.ops = Pop(w.ops)], operatorBit)

m_handle_operator(w, operatorBit) ==
    LET p == PopHigher(w, operatorBit) IN
    [p EXCEPT !.ops = Append(p.ops, operatorBit)]

\* m_handle_variable pushing the bit to the operator stack
m_handle_variable_stack(w, i) ==
    LET variableBit == w.bits[i] IN
    IF variableBit.first = Str2("P","I") \/ variableBit.first = Str2("p","i")
    THEN LET variableToNumberBit == InputBit(PiString, "NUMBER") IN
         [w EXCEPT !.bits[i] = variableToNumberBit,
                   !.ops = Append(w.ops, variableToNumberBit)]
    ELSE [w EXCEPT !.vt = Append(w.vt, Variable(variableBit.first, [n |-> 0, t |-> << >>])),
                   !.ops = Append(w.ops, variableBit)]

\* i is the position in m_inputBits of the bit variableBit refers to
m_handle_variable(w, i) ==
    LET variableBit == w.bits[i] IN
    IF variableBit.first = Str2("P","I") \/ variableBit.first = Str2("p","i")
    THEN LET variableToNumberBit == InputBit(PiString, "NUMBER") IN
         [w EXCEPT !.bits[i] = variableToNumberBit,
                   !.out = Append(w.out, variableToNumberBit)]
    ELSE [w EXCEPT !.vt = Append(w.vt, Variable(variableBit.first, [n |-> 0, t |-> << >>])),
                   !.out = Append(w.out, variableBit)]

\* the while loop popping without pushing to the output queue
RECURSIVE PopToLParen_drop(_)
PopToLParen_drop(w) ==
    IF w.ops = << >> THEN w
    ELSE IF Top(w.ops).first = Str1("(") THEN w
    ELSE PopToLParen_drop([w EXCEPT !.ops = Pop(w.ops)])

\* the while loop of m_handle_rParenthesis: pop to the output queue until
\* the top is a left parenthesis
RECURSIVE PopToLParen(_)
PopToLParen(w) ==
    IF w.ops = << >> THEN w
    ELSE IF Top(w.ops).first = Str1("(") THEN w
    ELSE PopToLParen([w EXCEPT !.out = Append(w.out, Top(w.ops)),
                               !.ops = Pop(w.ops)])

\* m_handle_rParenthesis returning instead of throwing on an empty stack
m_handle_rParenthesis_nothrow(w) ==
    LET p == PopToLParen(w) IN
    IF p.ops = << >> THEN p ELSE [p EXCEPT !.ops = Pop(p.ops)]

m_handle_rParenthesis(w) ==
    LET p == PopToLParen(w) IN
    IF p.ops = << >> THEN [p EXCEPT !.err = "INPUT_EXPR_SYNTAX_ERROR"]
    ELSE [p EXCEPT !.ops = Pop(p.ops)]

\* the body of the for loop of m_make_rpn for the bit at position i
HandleBit(w, i) ==
    LET bit == w.bits[i] IN
    CASE bit.second = "OPERATOR" -> m_handle_operator(w, bit)
      [] bit.second = "NUMBER" -> [w EXCEPT !.out = Append(w.out, bit)]
      [] bit.second = "VARIABLE" -> m_handle_variable(w, i)
      [] bit.second \in {"FUNCTION", "LPARENTHESIS"} ->
             [w EXCEPT !.ops = Append(w.ops, bit)]
      [] bit.second = "RPARENTHESIS" -> m_handle_rParenthesis(w)
      [] OTHER -> w

\* the for loop of m_make_rpn from position i on; a throw ends it
RECURSIVE HandleBits(_, _)
HandleBits(w, i) ==
    IF i > Len(w.bits) \/ w.err # "none" THEN w
    ELSE HandleBits(HandleBit(w, i), i + 1)

\* pop all items from the operator stack and push them to the output queue
RECURSIVE DrainStack(_)
DrainStack(w) ==
    IF w.ops = << >> THEN w
    ELSE DrainStack([w EXCEPT !.out = Append(w.out, Top(w.ops)),
                              !.ops = Pop(w.ops)])

----------------------------------------------------------------------------
(* m_validate_rpn: the tagging pass over m_rpn.  The working state is the  *)
(* record [rpn, err, unknownExprFound, unknownExprBit].                    *)

\* ValidateBit passing over a '(' instead of throwing
ValidateBit_noparen(v, vt, i) ==
    LET bit == v.rpn[i] IN
    CASE bit.second = "VARIABLE" ->
             LET varIndex == m_isVariable(vt, bit.first) IN
             [v EXCEPT !.rpn[i].first =
                  IF varIndex = 0 THEN SizeMaxString ELSE to_string(varIndex - 1)]
      [] bit.second = "FUNCTION" ->
             LET funcType == m_isFunction(bit.first) IN
             [v EXCEPT !.unknownExprFound = (funcType = FUNCTION_NONE) \/ @,
                       !.unknownExprBit =
                           IF funcType = FUNCTION_NONE THEN bit.first ELSE @,
                       !.rpn[i].first = to_string(funcType)]
      [] OTHER -> v

\* ValidateBit throwing UNKNOWN_EXPRESSION at a '(' that follows an unknown
\* name
ValidateBit_unknownfirst(v, vt, i) ==
    LET bit == v.rpn[i] IN
    CASE bit.second = "LPARENTHESIS" ->
             [v EXCEPT !.err = IF v.unknownExprFound THEN "UNKNOWN_EXPRESSION"
                               ELSE "INPUT_EXPR_SYNTAX_ERROR"]
      [] bit.second = "VARIABLE" ->
             LET varIndex == m_isVariable(vt, bit.first) IN
             [v EXCEPT !.rpn[i].first =
                  IF varIndex = 0 THEN SizeMaxString ELSE to_string(varIndex - 1)]
      [] bit.second = "FUNCTION" ->
             LET funcType == m_isFunction(bit.first) IN
             [v EXCEPT !.unknownExprFound = (funcType = FUNCTION_NONE) \/ @,
                       !.unknownExprBit =
                           IF funcType = FUNCTION_NONE THEN bit.first ELSE @,
                       !.rpn[i].first = to_string(funcType)]
      [] OTHER -> v

\* ValidateBit writing the Variable's index without the - 1
ValidateBit_plus1(v, vt, i) ==
    LET bit == v.rpn[i] IN
    CASE bit.second = "LPARENTHESIS" -> [v EXCEPT !.err = "INPUT_EXPR_SYNTAX_ERROR"]
      [] bit.second = "VARIABLE" ->
             [v EXCEPT !.rpn[i].first = to_string(m_isVariable(vt, bit.first))]
      [] bit.second = "FUNCTION" ->
             LET funcType == m_isFunction(bit.first) IN
             [v EXCEPT !.unknownExprFound = (funcType = FUNCTION_NONE) \/ @,
                       !.unknownExprBit =
                           IF funcType = FUNCTION_NONE THEN bit.first ELSE @,
                       !.rpn[i].first = to_string(funcType)]
      [] OTHER -> v

ValidateBit(v, vt, i) ==
    LET bit == v.rpn[i] IN
    CASE bit.second = "LPARENTHESIS" -> [v EXCEPT !.err = "INPUT_EXPR_SYNTAX_ERROR"]
      [] bit.second = "VARIABLE" ->
             LET varIndex == m_isVariable(vt, bit.first) IN
             [v EXCEPT !.rpn[i].first =
                  IF varIndex = 0 THEN SizeMaxString ELSE to_string(varIndex - 1)]
      [] bit.second = "FUNCTION" ->
             LET funcType == m_isFunction(bit.first) IN
             [v EXCEPT !.unknownExprFound = (funcType = FUNCTION_NONE) \/ @,
                       !.unknownExprBit =
                           IF funcType = FUNCTION_NONE THEN bit.first ELSE @,
                       !.rpn[i].first = to_string(funcType)]
      [] OTHER -> v

RECURSIVE ValidateBits(_, _, _)
ValidateBits(v, vt, i) ==
    IF i > Len(v.rpn) \/ v.err # "none" THEN v
    ELSE ValidateBits(ValidateBit(v, vt, i), vt, i + 1)

\* the exception thrown ("none" if none), its text, and m_rpn afterwards
m_validate_rpn(rpn, vt) ==
    LET v == ValidateBits([rpn |-> rpn, err |-> "none",
                           unknownExprFound |-> FALSE,
                           unknownExprBit |-> << >>], vt, 1)
    IN  IF v.err # "none" THEN [err |-> v.err, text |-> << >>, rpn |-> v.rpn]
        ELSE IF v.unknownExprFound
        THEN [err |-> "UNKNOWN_EXPRESSION", text |-> v.unknownExprBit, rpn |-> v.rpn]
        ELSE [err |-> "none", text |-> << >>, rpn |-> v.rpn]

\* m_make_rpn on the fields [bits, ops, out, vt] and rpn: the fields after
\* it returned or threw, with the exception and its text; src is m_rpn as
\* it was handed to m_validate_rpn, validated whether this call got there
m_make_rpn(w0, rpn, src) ==
    LET w == HandleBits(w0, 1) IN
    IF w.err # "none"
    THEN [bits |-> w.bits, ops |-> w.ops, out |-> w.out, vt |-> w.vt,
          rpn |-> rpn, src |-> src, err |-> w.err, text |-> << >>,
          validated |-> FALSE]
    ELSE LET d == DrainStack(w)
             v == m_validate_rpn(d.out, d.vt)
         IN  [bits |-> d.bits, ops |-> d.ops, out |-> << >>, vt |-> d.vt,
              rpn |-> v.rpn, src |-> d.out, err |-> v.err, text |-> v.text,
              validated |-> TRUE]

----------------------------------------------------------------------------
(* Doubles, std::stod, std::stoi, m_calc_operator, m_calc_function.        *)

Num(n) == [n |-> n, t |-> << >>]
Sym(t) == [n |-> 0, t |-> t]
Exact(v) == v.t = << >>
Abs(n) == IF n < 0 THEN 0 - n ELSE n

\* the text of a value inside a term
Term(v) == IF Exact(v) THEN << ToString(v.n) >> ELSE v.t

\* an integer result: exact inside the modelled range, a term outside it
Fit(n, t) == IF Abs(n) <= ExactLimit THEN Num(n) ELSE Sym(t)

BinTerm(l, op, r) == << "(" >> \o Term(l) \o << op >> \o Term(r) \o << ")" >>
AppTerm(f, v) == << f, "(" >> \o Term(v) \o << ")" >>

\* the end of the run of digits that starts at i
RECURSIVE DigitsEnd(_, _)
DigitsEnd(s, i) ==
    IF i <= Len(s) /\ s[i] \in DigitSet THEN DigitsEnd(s, i + 1) ELSE i

\* the value of a run of digits, saturating above ExactLimit
RECURSIVE DigitsValue(_, _)
DigitsValue(ds, acc) ==
    IF ds = << >> THEN acc
    ELSE IF acc > ExactLimit THEN acc
    ELSE DigitsValue(Tail(ds), acc * 10 + DigitVal(Head(ds)))

\* std::stod: sign, digits, at most one point, digits; it converts the
\* longest such prefix and throws std::invalid_argument without a digit
stod(s) ==
    LET neg == s # << >> /\ s[1] = "-"
        b == IF s # << >> /\ s[1] \in {"-", "+"} THEN 2 ELSE 1
        e1 == DigitsEnd(s, b)
        hasPoint == e1 <= Len(s) /\ s[e1] = "."
        e2 == IF hasPoint THEN DigitsEnd(s, e1 + 1) ELSE e1
        ip == SubSeq(s, b, e1 - 1)
        fp == IF hasPoint THEN SubSeq(s, e1 + 1, e2 - 1) ELSE << >>
        iv == DigitsValue(ip, 0)
    IN  IF ip = << >> /\ fp = << >> THEN [err |-> "invalid_argument", val |-> Num(0)]
        ELSE IF \A k \in 1..Len(fp) : fp[k] = "0"
        THEN [err |-> "none",
              val |-> Fit(IF neg THEN 0 - iv ELSE iv,
                          (IF neg THEN << "-" >> ELSE << >>) \o ip)]
        ELSE [err |-> "none",
              val |-> Sym((IF neg THEN << "-" >> ELSE << >>) \o ip \o << "." >> \o fp)]

\* std::stoi: sign, digits; std::invalid_argument without a digit,
\* std::out_of_range for a value no int holds (ten digits or more here)
stoi(s) ==
    LET neg == s # << >> /\ s[1] = "-"
        b == IF s # << >> /\ s[1] \in {"-", "+"} THEN 2 ELSE 1
        e == DigitsEnd(s, b)
        ds == SubSeq(s, b, e - 1)
    IN  IF ds = << >> THEN [err |-> "invalid_argument", val |-> 0]
        ELSE IF Len(ds) >= 10 THEN [err |-> "out_of_range", val |-> 0]
        ELSE LET RECURSIVE V(_, _)
                 V(d, acc) == IF d = << >> THEN acc
                              ELSE V(Tail(d), acc * 10 + DigitVal(Head(d)))
             IN  [err |-> "none", val |-> IF neg THEN 0 - V(ds, 0) ELSE V(ds, 0)]

\* acc * b^e for e >= 0, stopping once the magnitude leaves the modelled
\* range
RECURSIVE PowAcc(_, _, _)
PowAcc(b, e, acc) ==
    IF e = 0 \/ Abs(acc) > ExactLimit THEN acc ELSE PowAcc(b, e - 1, acc * b)

IntPow(b, e) ==
    IF e = 0 THEN 1
    ELSE IF b \in {0, 1} THEN b
    ELSE IF b = 0 - 1 THEN (IF e % 2 = 0 THEN 1 ELSE 0 - 1)
    ELSE PowAcc(b, e, 1)

\* std::fmod on integers: the sign follows the dividend
IntFmod(l, r) == (IF l < 0 THEN 0 - 1 ELSE 1) * (Abs(l) % Abs(r))

m_calc_operator(lVal, rVal, operatorName) ==
    LET c == IF operatorName = << >> THEN "" ELSE operatorName[1]
        ex == Exact(lVal) /\ Exact(rVal)
        l == lVal.n
        r == rVal.n
    IN  CASE c = "+" -> IF ex THEN Fit(l + r, BinTerm(lVal, c, rVal))
                        ELSE Sym(BinTerm(lVal, c, rVal))
          [] c = "-" -> IF ex THEN Fit(l - r, BinTerm(lVal, c, rVal))
                        ELSE Sym(BinTerm(lVal, c, rVal))
          [] c = "*" -> IF ex THEN Fit(l * r, BinTerm(lVal, c, rVal))
                        ELSE Sym(BinTerm(lVal, c, rVal))
          [] c = "/" -> IF ex /\ r # 0 /\ Abs(l) % Abs(r) = 0
                        THEN Num((IF (l < 0) # (r < 0) THEN 0 - 1 ELSE 1)
                                 * (Abs(l) \div Abs(r)))
                        ELSE Sym(BinTerm(lVal, c, rVal))
          [] c = "%" -> IF ex /\ r # 0 THEN Num(IntFmod(l, r))
                        ELSE Sym(BinTerm(lVal, c, rVal))
          [] c = "^" -> IF ex /\ r >= 0 /\ r <= ExactLimit
                        THEN Fit(IntPow(l, r), BinTerm(lVal, c, rVal))
                        ELSE Sym(BinTerm(lVal, c, rVal))
          [] OTHER -> Num(0)

m_calc_function(val, func) ==
    CASE func = FUNCTION_NONE -> Num(0)
      [] func = FUNCTION_ATAN2 -> Num(0)      \* ATAN2 has no case: default
      [] func = FUNCTION_ABS -> IF Exact(val) THEN Num(Abs(val.n))
                                ELSE Sym(AppTerm("abs", val))
      [] func \in 1..15 -> Sym(AppTerm(ToString(func), val))
      [] OTHER -> Num(0)

----------------------------------------------------------------------------
(* calculate: the walk over m_rpn.  The working state is the record        *)
(* [stack, err, at, subst]: m_numberStack, the failure that ended the walk *)
(* ("UB": top() or pop() of an empty stack, or an index outside            *)
(* m_varTable), the kind of bit it happened at, and the values pushed for  *)
(* the Variable bits so far.                                               *)

\* CalcBit taking the left operand from the bottom of the stack
CalcBit_bottom(c, bit, vt) ==
    CASE bit.second = "NUMBER" ->
             LET d == stod(bit.first) IN
             IF d.err # "none" THEN [c EXCEPT !.err = d.err]
             ELSE [c EXCEPT !.stack = Append(c.stack, d.val)]
      [] bit.second = "OPERATOR" ->
             IF Len(c.stack) < 2 THEN [c EXCEPT !.err = "UB", !.at = "OPERATOR"]
             ELSE [c EXCEPT !.stack = Append(Pop(Pop(c.stack)),
                       m_calc_operator(c.stack[1], Top(c.stack), bit.first))]
      [] bit.second = "FUNCTION" ->
             LET func == stoi(bit.first) IN
             IF func.err # "none" THEN [c EXCEPT !.err = func.err]
             ELSE IF c.stack = << >> THEN [c EXCEPT !.err = "UB", !.at = "FUNCTION"]
             ELSE [c EXCEPT !.stack = Append(Pop(c.stack),
                       m_calc_function(Top(c.stack), func.val))]
      [] bit.second = "VARIABLE" ->
             LET varIndex == stoi(bit.first) IN
             IF varIndex.err # "none" THEN [c EXCEPT !.err = varIndex.err]
             ELSE IF varIndex.val < 0 \/ varIndex.val >= Len(vt)
             THEN [c EXCEPT !.err = "UB", !.at = "VARIABLE"]
             ELSE [c EXCEPT !.stack = Append(c.stack, vt[varIndex.val + 1].second),
                            !.subst = Append(c.subst, vt[varIndex.val + 1].second)]
      [] OTHER -> c

CalcBit(c, bit, vt) ==
    CASE bit.second = "NUMBER" ->
             LET d == stod(bit.first) IN
             IF d.err # "none" THEN [c EXCEPT !.err = d.err]
             ELSE [c EXCEPT !.stack = Append(c.stack, d.val)]
      [] bit.second = "OPERATOR" ->
             IF Len(c.stack) < 2 THEN [c EXCEPT !.err = "UB", !.at = "OPERATOR"]
             ELSE LET rVal == Top(c.stack)
                      lVal == Top(Pop(c.stack))
                      operatorCalcResult == m_calc_operator(lVal, rVal, bit.first)
                  IN  [c EXCEPT !.stack = Append(Pop(Pop(c.stack)), operatorCalcResult)]
      [] bit.second = "FUNCTION" ->
             LET func == stoi(bit.first) IN
             IF func.err # "none" THEN [c EXCEPT !.err = func.err]
             ELSE IF c.stack = << >> THEN [c EXCEPT !.err = "UB", !.at = "FUNCTION"]
             ELSE LET val == Top(c.stack)
                      functionCalcResult == m_calc_function(val, func.val)
                  IN  [c EXCEPT !.stack = Append(Pop(c.stack), functionCalcResult)]
      [] bit.second = "VARIABLE" ->
             LET varIndex == stoi(bit.first) IN
             IF varIndex.err # "none" THEN [c EXCEPT !.err = varIndex.err]
             ELSE IF varIndex.val < 0 \/ varIndex.val >= Len(vt)
             THEN [c EXCEPT !.err = "UB", !.at = "VARIABLE"]
             ELSE [c EXCEPT !.stack = Append(c.stack, vt[varIndex.val + 1].second),
                            !.subst = Append(c.subst, vt[varIndex.val + 1].second)]
      [] OTHER -> c

RECURSIVE CalcBits(_, _, _, _)
CalcBits(c, rpn, vt, i) ==
    IF i > Len(rpn) \/ c.err # "none" THEN c
    ELSE CalcBits(CalcBit(c, rpn[i], vt), rpn, vt, i + 1)

\* the walk and the final m_numberStack.top()
calculate(rpn, vt, numberStack) ==
    LET c == CalcBits([stack |-> numberStack, err |-> "none", at |-> "",
                       subst |-> << >>], rpn, vt, 1)
    IN  IF c.err = "none" /\ c.stack = << >>
        THEN [c EXCEPT !.err = "UB", !.at = "return"]
        ELSE c

----------------------------------------------------------------------------
(* The object and its public operations                                   *)

\* the expression texts a caller passes are made of these pieces
Pieces ==
    { Str1("("), Str1(")"), Str1("1"), Str1("-"), Str1("+"),
      Str3("$","x","$"), Str3("$","y","$"), Str3("a","b","s") }

\* the pieces of the expression texts given to the parser alone
ParsePieces ==
    { Str1(" "), Str1("\t"), Str1("("), Str1(")"), Str1("1"), Str1("+"),
      Str1("-"), Str3("$","x","$"), Str3("a","b","s"), Str3("A","B","S"),
      Str3("A","b","s"), Str3("F","O","O") }

PieceSeqs(P, n) == UNION { [1..k -> P] : k \in 0..n }

\* the names and values a caller passes to set_value
SetNames == { Str1("x"), Str1("y"), Str1("z") }
SetValues == { Num(2), Num(5) }

\* what an execution with undefined behaviour may return
GarbageValues == { Num(0), Num(1) }

Undefined == { "UB_CRASH", "UB_RETURN" }

Init ==
    /\ m_inputExpr = << >>
    /\ m_inputBits = << >>
    /\ m_rpn = << >>
    /\ m_varTable = << >>
    /\ m_operatorStack = << >>
    /\ m_outputQueue = << >>
    /\ m_numberStack = << >>
    /\ lastCall = "none"
    /\ lastError = "none"
    /\ errText = << >>
    /\ result = Num(0)
    /\ hist = [inits |-> 0, sets |-> 0, calcs |-> 0, pieces |-> 0,
               initOk |-> FALSE, rpnSrc |-> << >>, lastSet |-> << >>,
               calcsSinceInit |-> 0, prevResult |-> Num(0), subst |-> << >>,
               at |-> "", arg |-> << >>, validated |-> FALSE,
               prevInitOk |-> FALSE,
               pre |-> [inputBits |-> << >>, rpn |-> << >>, varTable |-> << >>]]
    /\ scan_it = 0

\* init_with_expr(input), input the concatenation of the pieces ps
init_with_expr(ps) ==
    LET input == Concat(ps)
        t == m_make_input_bits(input, m_inputBits)
        r == m_make_rpn([bits |-> t.inputBits, ops |-> m_operatorStack,
                         out |-> m_outputQueue, vt |-> m_varTable,
                         err |-> "none"], m_rpn, hist.rpnSrc)
        h == [hist EXCEPT !.inits = @ + 1, !.pieces = @ + Len(ps),
                          !.calcsSinceInit = 0, !.arg = input,
                          !.prevInitOk = hist.initOk,
                          !.pre = [inputBits |-> m_inputBits, rpn |-> m_rpn,
                                   varTable |-> m_varTable]]
    IN  /\ lastError \notin Undefined
        /\ hist.inits < MaxInits
        /\ m_inputExpr' = input
        /\ lastCall' = "init_with_expr"
        /\ UNCHANGED << m_numberStack, result, scan_it >>
        /\ IF t.err # "none"
           THEN /\ lastError' = t.err
                /\ errText' = << >>
                /\ m_inputBits' = t.inputBits
                /\ UNCHANGED << m_rpn, m_varTable, m_operatorStack, m_outputQueue >>
                /\ hist' = [h EXCEPT !.initOk = FALSE, !.validated = FALSE]
           ELSE /\ lastError' = r.err
                /\ errText' = r.text
                /\ m_inputBits' = r.bits
                /\ m_rpn' = r.rpn
                /\ m_varTable' = r.vt
                /\ m_operatorStack' = r.ops
                /\ m_outputQueue' = r.out
                /\ hist' = [h EXCEPT !.initOk = (r.err = "none"),
                                     !.rpnSrc = r.src,
                                     !.validated = r.validated]

\* the latest value set_value stored under each name
RecordSet(lastSet, varName, varValue) ==
    SelectSeq(lastSet, LAMBDA p : p.first # varName)
        \o << Variable(varName, varValue) >>

\* the assignment made to every entry that has the name of varIndex's
StoreValue_all(varTable, varIndex, varValue) ==
    [i \in 1..Len(varTable) |->
        IF varTable[i].first = varTable[varIndex + 1].first
        THEN Variable(varTable[i].first, varValue) ELSE varTable[i]]

\* m_varTable[varIndex].second = varValue
StoreValue(varTable, varIndex, varValue) ==
    [varTable EXCEPT ![varIndex + 1].second = varValue]

set_value(varName, varValue) ==
    LET varIndex == m_isVariable(m_varTable, varName) - 1
        h == [hist EXCEPT !.sets = @ + 1, !.arg = varName,
                          !.pre = [inputBits |-> m_inputBits, rpn |-> m_rpn,
                                   varTable |-> m_varTable]]
    IN  /\ lastError \notin Undefined
        /\ hist.sets < MaxSets
        /\ lastCall' = "set_value"
        /\ UNCHANGED << m_inputExpr, m_inputBits, m_rpn, m_operatorStack,
                        m_outputQueue, m_numberStack, result, scan_it >>
        /\ IF varIndex < 0
           THEN /\ lastError' = "UNKNOWN_VARIABLE"
                /\ errText' = varName
                /\ UNCHANGED m_varTable
                /\ hist' = h
           ELSE /\ lastError' = "none"
                /\ errText' = << >>
                /\ m_varTable' = StoreValue(m_varTable, varIndex, varValue)
                /\ hist' = [h EXCEPT !.lastSet = RecordSet(@, varName, varValue)]

\* calculate tagging the postfix program again before it returns
Calculate_retag ==
    LET c == calculate(m_rpn, m_varTable, m_numberStack)
        h == [hist EXCEPT !.calcs = @ + 1, !.calcsSinceInit = @ + 1,
                          !.prevResult = result, !.subst = c.subst,
                          !.at = c.at, !.arg = << >>,
                          !.pre = [inputBits |-> m_inputBits, rpn |-> m_rpn,
                                   varTable |-> m_varTable]]
    IN  /\ lastError \notin Undefined
        /\ hist.calcs < MaxCalcs
        /\ lastCall' = "calculate"
        /\ errText' = << >>
        /\ hist' = h
        /\ m_rpn' = m_validate_rpn(m_rpn, m_varTable).rpn
        /\ UNCHANGED << m_inputExpr, m_inputBits, m_varTable,
                        m_operatorStack, m_outputQueue, scan_it >>
        /\ IF c.err = "UB"
           THEN /\ lastError' \in Undefined
                /\ result' \in GarbageValues
                /\ m_numberStack' = << >>
           ELSE /\ lastError' = c.err
                /\ m_numberStack' = c.stack
                /\ result' = IF c.err = "none" THEN Top(c.stack) ELSE result

Calculate ==
    LET c == calculate(m_rpn, m_varTable, m_numberStack)
        h == [hist EXCEPT !.calcs = @ + 1, !.calcsSinceInit = @ + 1,
                          !.prevResult = result, !.subst = c.subst,
                          !.at = c.at, !.arg = << >>,
                          !.pre = [inputBits |-> m_inputBits, rpn |-> m_rpn,
                                   varTable |-> m_varTable]]
    IN  /\ lastError \notin Undefined
        /\ hist.calcs < MaxCalcs
        /\ lastCall' = "calculate"
        /\ errText' = << >>
        /\ hist' = h
        /\ UNCHANGED << m_inputExpr, m_inputBits, m_rpn, m_varTable,
                        m_operatorStack, m_outputQueue, scan_it >>
        /\ IF c.err = "UB"
           THEN /\ lastError' \in Undefined
                /\ result' \in GarbageValues
                /\ m_numberStack' = << >>
           ELSE /\ lastError' = c.err
                /\ m_numberStack' = c.stack
                /\ result' = IF c.err = "none" THEN Top(c.stack) ELSE result

Next ==
    \/ \E ps \in PieceSeqs(Pieces, MaxPieces - hist.pieces) : init_with_expr(ps)
    \/ \E varName \in SetNames, varValue \in SetValues : set_value(varName, varValue)
    \/ Calculate

Spec == Init /\ [][Next]_vars

\* the parser alone, on a richer set of expression texts
ParseNext ==
    \E ps \in PieceSeqs(ParsePieces, MaxPieces - hist.pieces) : init_with_expr(ps)

SpecParse == Init /\ [][ParseNext]_vars

\* a fresh interpreter: one init_with_expr, then one set_value at most and
\* calculate
FreshPieces ==
    { Str1("("), Str1(")"), Str3("(","7",")"), Str3("(","3",")"), Str1("7"),
      Str1("3"), Str1("%"), Str1("*"), Str1("+"), Str1("-"),
      Str5("a","t","a","n","2"), Str4("$","P","i","$"), Str4("$","p","i","$"),
      Str3("$","x","$") }

FreshNames == { Str1("x"), Str2("P","i"), Str2("p","i") }

FreshNext ==
    \/ /\ hist.inits = 0
       /\ \E ps \in PieceSeqs(FreshPieces, MaxFreshPieces) : init_with_expr(ps)
    \/ /\ hist.inits = 1 /\ hist.sets = 0
       /\ \E varName \in FreshNames, varValue \in SetValues :
              set_value(varName, varValue)
    \/ /\ hist.inits = 1
       /\ Calculate

SpecFresh == Init /\ [][FreshNext]_vars

\* one arithmetic expression text, parsed and evaluated once
EvalPieces ==
    { Str1("2"), Str1("3"), Str1("+"), Str1("-"), Str1("*"), Str1("^"),
      Str1("("), Str1(")") }

EvalNext ==
    \/ /\ hist.inits = 0
       /\ \E ps \in PieceSeqs(EvalPieces, MaxEvalPieces) : init_with_expr(ps)
    \/ /\ hist.inits = 1 /\ hist.calcs = 0
       /\ Calculate

SpecEval == Init /\ [][EvalNext]_vars

\* one expression text given to a fresh interpreter, the scanning loop of
\* m_make_input_bits taken one iteration at a time
ScanPieces ==
    { Str1(" "), Str1("("), Str1(")"), Str1("1"), Str1("+"), Str1("-"),
      Str1("*"), Str1("$"), Str3("$","x","$"), Str3("a","b","s") }

\* init_with_expr up to the first test of the scanning loop
ScanStart(ps) ==
    LET input == Concat(ps)
        inputExprNoWS == m_clear_whitespaces(input)
        h == [hist EXCEPT !.inits = @ + 1, !.pieces = @ + Len(ps),
                          !.calcsSinceInit = 0, !.arg = input,
                          !.prevInitOk = hist.initOk,
                          !.pre = [inputBits |-> m_inputBits, rpn |-> m_rpn,
                                   varTable |-> m_varTable]]
    IN  /\ scan_it = 0
        /\ hist.inits = 0
        /\ m_inputExpr' = input
        /\ UNCHANGED << m_inputBits, m_rpn, m_varTable, m_operatorStack,
                        m_outputQueue, m_numberStack, result >>
        /\ IF inputExprNoWS = << >>
           THEN /\ lastCall' = "init_with_expr"
                /\ lastError' = "BAD_INIT"
                /\ errText' = << >>
                /\ scan_it' = 0
                /\ hist' = [h EXCEPT !.initOk = FALSE, !.validated = FALSE]
           ELSE /\ scan_it' = 1
                /\ hist' = h
                /\ UNCHANGED << lastCall, lastError, errText >>

\* one iteration of the scanning loop
ScanStep ==
    LET inputExprNoWS == m_clear_whitespaces(m_inputExpr) IN
    /\ scan_it # 0
    /\ scan_it # Len(inputExprNoWS) + 1
    /\ LET x == ExtractBit(inputExprNoWS, scan_it) IN
       /\ m_inputBits' = Append(m_inputBits, x.bit)
       /\ scan_it' = x.it
    /\ UNCHANGED << m_inputExpr, m_rpn, m_varTable, m_operatorStack,
                    m_outputQueue, m_numberStack, lastCall, lastError,
                    errText, result, hist >>

\* the last test of the scanning loop: m_make_input_bits returns
ScanExit ==
    LET inputExprNoWS == m_clear_whitespaces(m_inputExpr) IN
    /\ scan_it # 0
    /\ scan_it = Len(inputExprNoWS) + 1
    /\ scan_it' = 0
    /\ lastCall' = "m_make_input_bits"
    /\ UNCHANGED << m_inputExpr, m_inputBits, m_rpn, m_varTable,
                    m_operatorStack, m_outputQueue, m_numberStack, lastError,
                    errText, result, hist >>

\* the rest of init_with_expr: the call of m_make_rpn
ScanRpn ==
    LET r == m_make_rpn([bits |-> m_inputBits, ops |-> m_operatorStack,
                         out |-> m_outputQueue, vt |-> m_varTable,
                         err |-> "none"], m_rpn, hist.rpnSrc)
    IN  /\ lastCall = "m_make_input_bits"
        /\ lastCall' = "init_with_expr"
        /\ lastError' = r.err
        /\ errText' = r.text
        /\ m_inputBits' = r.bits
        /\ m_rpn' = r.rpn
        /\ m_varTable' = r.vt
        /\ m_operatorStack' = r.ops
        /\ m_outputQueue' = r.out
        /\ hist' = [hist EXCEPT !.initOk = (r.err = "none"), !.rpnSrc = r.src,
                                !.validated = r.validated]
        /\ UNCHANGED << m_inputExpr, m_numberStack, result, scan_it >>

ScanNext ==
    \/ \E ps \in PieceSeqs(ScanPieces, MaxScanPieces) : ScanStart(ps)
    \/ ScanStep
    \/ ScanExit
    \/ ScanRpn

\* a call of m_make_input_bits that has begun is run on by its thread;
\* whether the caller ever makes the call is left open
SpecScan == Init /\ [][ScanNext]_vars /\ WF_vars(ScanStep \/ ScanExit)

----------------------------------------------------------------------------
(* Properties                                                              *)

IsInit == lastCall = "init_with_expr"
IsSet == lastCall = "set_value"
IsCalc == lastCall = "calculate"

\* the bits the last init_with_expr appended to m_inputBits
NewBits == SubSeq(m_inputBits, Len(hist.pre.inputBits) + 1, Len(m_inputBits))

AllWhiteSpace(str) == \A i \in 1..Len(str) : str[i] \in WhiteSpace

\* C1: init_with_expr on an empty or whitespace-only text throws BAD_INIT
\* and leaves m_inputBits, m_rpn and m_varTable as they were
C1_BadInit ==
    (IsInit /\ AllWhiteSpace(m_inputExpr)) =>
        /\ lastError = "BAD_INIT"
        /\ m_inputBits = hist.pre.inputBits
        /\ m_rpn = hist.pre.rpn
        /\ m_varTable = hist.pre.varTable

\* a whitespace-only text was refused on an object that already holds bits
C1_Witness ==
    /\ IsInit /\ m_inputExpr # << >> /\ AllWhiteSpace(m_inputExpr)
    /\ lastError = "BAD_INIT"
    /\ m_inputBits # << >>

\* the nesting depth of the parenthesis bits after bits[i..], -1 once a
\* right parenthesis has no left parenthesis open before it
RECURSIVE ParenDepth(_, _, _)
ParenDepth(bits, i, d) ==
    IF i > Len(bits) THEN d
    ELSE IF bits[i].second = "LPARENTHESIS" THEN ParenDepth(bits, i + 1, d + 1)
    ELSE IF bits[i].second = "RPARENTHESIS"
    THEN (IF d = 0 THEN 0 - 1 ELSE ParenDepth(bits, i + 1, d - 1))
    ELSE ParenDepth(bits, i + 1, d)

SpecFunctionNames ==
    { Str3("l","o","g"), Str5("l","o","g","1","0"), Str3("s","i","n"),
      Str3("c","o","s"), Str3("t","a","n"), Str3("c","o","t"),
      Str4("a","s","i","n"), Str4("a","c","o","s"), Str4("a","t","a","n"),
      Str5("a","t","a","n","2"), Str4("a","c","o","t"), Str3("d","e","g"),
      Str3("r","a","d"), Str4("s","q","r","t"), Str3("e","x","p"),
      Str3("a","b","s") }

\* a name written entirely in lowercase or entirely in uppercase
SpecKnown(name) == \E f \in SpecFunctionNames : name = f \/ name = ToUpper(f)

\* the texts of the Function bits whose name is not a function name
UnknownTexts(bits) ==
    { bits[i].first : i \in { j \in 1..Len(bits) :
          bits[j].second = "FUNCTION" /\ ~SpecKnown(bits[j].first) } }

Names(varTable) == [i \in 1..Len(varTable) |-> varTable[i].first]

\* C4: set_value on a name that is not in the variable table throws
\* UNKNOWN_VARIABLE carrying the name and changes no entry of the table
C4_UnknownVariable ==
    (IsSet /\ \A i \in 1..Len(hist.pre.varTable) :
                   hist.pre.varTable[i].first # hist.arg) =>
        /\ lastError = "UNKNOWN_VARIABLE"
        /\ errText = hist.arg
        /\ m_varTable = hist.pre.varTable

\* an unknown name was refused while the table had entries with set values
C4_Witness ==
    /\ IsSet /\ lastError = "UNKNOWN_VARIABLE" /\ errText = Str1("z")
    /\ \E i \in 1..Len(m_varTable) : m_varTable[i].second # Num(0)

\* C5: a set_value that succeeds leaves m_rpn, m_inputBits, the length of
\* the table and every name as they were, and changes the value of at most
\* one entry
C5_SetValueFrame ==
    (IsSet /\ lastError = "none") =>
        /\ m_rpn = hist.pre.rpn
        /\ m_inputBits = hist.pre.inputBits
        /\ Names(m_varTable) = Names(hist.pre.varTable)
        /\ \E i \in 1..Len(m_varTable) :
               \A j \in 1..Len(m_varTable) :
                   j # i => m_varTable[j] = hist.pre.varTable[j]

\* the second set_value of a lifetime changed one of several entries, one
\* of them a second entry of the same name
C5_Witness ==
    /\ IsSet /\ lastError = "none" /\ hist.sets = 2
    /\ m_varTable # hist.pre.varTable
    /\ \E i, j \in 1..Len(m_varTable) :
           i # j /\ m_varTable[i].first = m_varTable[j].first
    /\ \E i \in 1..Len(m_rpn) : m_rpn[i].second = "VARIABLE"

\* the names of the Variable bits of a postfix program, in order
VariableTexts(rpn) ==
    LET vs == SelectSeq(rpn, LAMBDA b : b.second = "VARIABLE")
    IN  [i \in 1..Len(vs) |-> vs[i].first]

\* the value set_value stored last under name, 0.0 if it never stored one
LastSet(name) ==
    IF \E i \in 1..Len(hist.lastSet) : hist.lastSet[i].first = name
    THEN hist.lastSet[CHOOSE i \in 1..Len(hist.lastSet) :
                          hist.lastSet[i].first = name].second
    ELSE Num(0)

NumberOK(str) ==
    LET body == IF str # << >> /\ str[1] = "-" THEN Tail(str) ELSE str IN
    /\ \A i \in 1..Len(body) : body[i] \in DigitSet \cup {"."}
    /\ \E i \in 1..Len(body) : body[i] \in DigitSet
    /\ Cardinality({ i \in 1..Len(body) : body[i] = "." }) <= 1

\* the number of values a walk over rpn[i..] leaves when it starts with d,
\* -1 if a bit lacks an operand or is no bit of a postfix program
RECURSIVE Depth(_, _, _)
Depth(rpn, i, d) ==
    IF i > Len(rpn) THEN d
    ELSE CASE rpn[i].second = "NUMBER" ->
                  IF NumberOK(rpn[i].first) THEN Depth(rpn, i + 1, d + 1) ELSE 0 - 1
           [] rpn[i].second = "VARIABLE" -> Depth(rpn, i + 1, d + 1)
           [] rpn[i].second = "OPERATOR" ->
                  IF d >= 2 THEN Depth(rpn, i + 1, d - 1) ELSE 0 - 1
           [] rpn[i].second = "FUNCTION" ->
                  IF d >= 1 THEN Depth(rpn, i + 1, d) ELSE 0 - 1
           [] OTHER -> 0 - 1

\* the postfix program of a syntactically valid expression
WellFormed(rpn) == Depth(rpn, 1, 0) = 1

NoVariables(rpn) == \A i \in 1..Len(rpn) : rpn[i].second # "VARIABLE"

\* C7: for a valid expression without variables every calculate returns,
\* and returns what the calculate before it returned
C7_SameResult ==
    (IsCalc /\ hist.initOk /\ WellFormed(m_rpn) /\ NoVariables(m_rpn)) =>
        /\ lastError = "none"
        /\ hist.calcsSinceInit >= 2 => result = hist.prevResult

\* the second calculate on an expression with an operator returned the
\* first one's value while the stack kept the first one's value below it
C7_Witness ==
    /\ IsCalc /\ hist.initOk /\ WellFormed(m_rpn) /\ NoVariables(m_rpn)
    /\ hist.calcsSinceInit = 2 /\ lastError = "none"
    /\ result = hist.prevResult /\ result # Num(0)
    /\ \E i \in 1..Len(m_rpn) : m_rpn[i].second = "OPERATOR"
    /\ Len(m_numberStack) = 2

\* C8 as stated: the calculate that follows an init_with_expr that did
\* not throw returns a value
C8_Claim ==
    (IsCalc /\ hist.initOk /\ hist.calcsSinceInit = 1) =>
        lastError = "none"

\* C9 as stated: calculate throws a syntax error when an Operator or a
\* Function bit of an accepted expression finds too few values on the stack
C9_Claim ==
    (IsCalc /\ hist.initOk /\ hist.at \in {"OPERATOR", "FUNCTION"}) =>
        lastError = "INPUT_EXPR_SYNTAX_ERROR"

\* C10 as stated: after every calculate on a valid expression the stack
\* holds exactly one value, the result
C10_Claim ==
    (IsCalc /\ hist.initOk /\ WellFormed(m_rpn) /\ lastError = "none") =>
        /\ Len(m_numberStack) = 1
        /\ Top(m_numberStack) = result

\* C11 as stated: a postfix program whose walk leaves more than one of
\* the values it pushed is rejected by init_with_expr, or calculate fails
C11_Claim ==
    (IsCalc /\ hist.initOk /\ Depth(m_rpn, 1, 0) > 1) =>
        lastError # "none"

\* the whitespace-stripped text the last init_with_expr scanned
Stripped == m_clear_whitespaces(m_inputExpr)

\* C12 as stated: a '%' between two operands is tokenized as an Operator
\* bit of precedence 3 and the expression is accepted
C12_Claim ==
    (IsInit /\ \E i \in 2..(Len(Stripped) - 1) :
                   /\ Stripped[i] = "%"
                   /\ Stripped[i - 1] \in DigitSet
                   /\ Stripped[i + 1] \in DigitSet) =>
        /\ lastError = "none"
        /\ \E k \in 1..Len(m_inputBits) :
               /\ m_inputBits[k] = InputBit(Str1("%"), "OPERATOR")
               /\ m_precedence(m_inputBits[k]) = 3

\* The reference evaluation of an infix text over non-negative integer
\* literals, + - * ^ and parentheses, by recursive descent: ^ binds tighter
\* than *, * tighter than + and -, equal precedence groups left to right.
\* A parse is [ok, val, it]: whether it succeeded, the value, the position
\* after it.
RefFail == [ok |-> FALSE, val |-> Num(0), it |-> 0]

RECURSIVE RefExpr(_, _)
RECURSIVE RefExprRest(_, _)
RECURSIVE RefTerm(_, _)
RECURSIVE RefTermRest(_, _)
RECURSIVE RefPower(_, _)
RECURSIVE RefPowerRest(_, _)
RECURSIVE RefAtom(_, _)

RefAtom(s, i) ==
    IF i > Len(s) THEN RefFail
    ELSE IF s[i] \in DigitSet
    THEN LET e == DigitsEnd(s, i)
         IN  [ok |-> TRUE, val |-> stod(SubSeq(s, i, e - 1)).val, it |-> e]
    ELSE IF s[i] = "("
    THEN LET x == RefExpr(s, i + 1)
         IN  IF x.ok /\ x.it <= Len(s) /\ s[x.it] = ")"
             THEN [x EXCEPT !.it = @ + 1] ELSE RefFail
    ELSE RefFail

RefPowerRest(s, a) ==
    IF a.ok /\ a.it <= Len(s) /\ s[a.it] = "^"
    THEN LET b == RefAtom(s, a.it + 1)
         IN  IF b.ok
             THEN RefPowerRest(s, [ok |-> TRUE, it |-> b.it,
                      val |-> m_calc_operator(a.val, b.val, Str1("^"))])
             ELSE RefFail
    ELSE a

RefPower(s, i) == RefPowerRest(s, RefAtom(s, i))

RefTermRest(s, a) ==
    IF a.ok /\ a.it <= Len(s) /\ s[a.it] = "*"
    THEN LET b == RefPower(s, a.it + 1)
         IN  IF b.ok
             THEN RefTermRest(s, [ok |-> TRUE, it |-> b.it,
                      val |-> m_calc_operator(a.val, b.val, Str1("*"))])
             ELSE RefFail
    ELSE a

RefTerm(s, i) == RefTermRest(s, RefPower(s, i))

RefExprRest(s, a) ==
    IF a.ok /\ a.it <= Len(s) /\ s[a.it] \in {"+", "-"}
    THEN LET b == RefTerm(s, a.it + 1)
         IN  IF b.ok
             THEN RefExprRest(s, [ok |-> TRUE, it |-> b.it,
                      val |-> m_calc_operator(a.val, b.val, Str1(s[a.it]))])
             ELSE RefFail
    ELSE a

RefExpr(s, i) == RefExprRest(s, RefTerm(s, i))

\* the text is a well-formed expression of the reference grammar
RefOk(s) == RefExpr(s, 1).ok /\ RefExpr(s, 1).it = Len(s) + 1

RefValue(s) == RefExpr(s, 1).val

IsPiName(name) == ToUpper(name) = Str2("P","I")

\* C14 as stated: a variable named pi in any letter case enters neither the
\* variable table nor the postfix program as a Variable bit, and set_value
\* on such a name throws UNKNOWN_VARIABLE
C14_Claim ==
    /\ (IsInit /\ lastError = "none") =>
           /\ \A i \in 1..Len(m_varTable) : ~IsPiName(m_varTable[i].first)
           /\ \A k \in 1..Len(hist.rpnSrc) :
                  hist.rpnSrc[k].second = "VARIABLE" =>
                      ~IsPiName(hist.rpnSrc[k].first)
    /\ (IsSet /\ IsPiName(hist.arg)) => lastError = "UNKNOWN_VARIABLE"

\* C15 as stated: calculate fails on an accepted program that applies
\* atan2 to an argument
C15_Claim ==
    (/\ IsCalc /\ hist.initOk /\ WellFormed(m_rpn)
     /\ m_inputBits # << >> /\ m_inputBits[1].second = "FUNCTION"
     /\ \E k \in 1..Len(m_rpn) :
            m_rpn[k] = InputBit(to_string(FUNCTION_ATAN2), "FUNCTION")) =>
        lastError # "none"

\* C16: calculate leaves m_rpn, m_varTable (names, order, values) and
\* m_inputBits as they were, whatever calls went before
C16_CalculateFrame ==
    IsCalc =>
        /\ m_rpn = hist.pre.rpn
        /\ m_varTable = hist.pre.varTable
        /\ m_inputBits = hist.pre.inputBits

\* the second calculate of a lifetime, after a set_value stored a value
\* that the program reads
C16_Witness ==
    /\ IsCalc /\ lastError = "none" /\ hist.calcs = 2 /\ hist.sets >= 1
    /\ m_rpn = hist.pre.rpn /\ m_varTable = hist.pre.varTable
    /\ \E k \in 1..Len(hist.subst) : hist.subst[k] # Num(0)
    /\ \E k \in 1..Len(m_rpn) : m_rpn[k].second = "OPERATOR"

\* the sequence without the later occurrences of its elements
RECURSIVE FirstOccurrences(_)
FirstOccurrences(seq) ==
    IF seq = << >> THEN << >>
    ELSE LET init == FirstOccurrences(SubSeq(seq, 1, Len(seq) - 1))
             last == seq[Len(seq)]
         IN  IF \E i \in 1..Len(init) : init[i] = last
             THEN init ELSE Append(init, last)

\* C17 as stated: after a successful init_with_expr on a fresh interpreter
\* the table lists each variable name of the expression once, in order of
\* first occurrence
C17_Claim ==
    (/\ IsInit /\ hist.inits = 1 /\ lastError = "none" /\ WellFormed(m_rpn)
     /\ m_inputBits[1].second = "VARIABLE"
     /\ m_inputBits[Len(m_inputBits)].second = "VARIABLE") =>
        /\ \A i, j \in 1..Len(m_varTable) :
               i # j => m_varTable[i].first # m_varTable[j].first
        /\ Names(m_varTable) = FirstOccurrences(VariableTexts(m_inputBits))

\* C18: after a successful init_with_expr on a fresh interpreter every
\* Variable bit of m_rpn carries an index inside the table, and the entry
\* at that index has the name the bit had before it was tagged
C18_SlotIndex ==
    (IsInit /\ hist.inits = 1 /\ lastError = "none") =>
        /\ Len(m_rpn) = Len(hist.rpnSrc)
        /\ \A k \in 1..Len(m_rpn) :
               m_rpn[k].second = "VARIABLE" =>
                   LET i == stoi(m_rpn[k].first) IN
                   /\ i.err = "none"
                   /\ 0 <= i.val /\ i.val < Len(m_varTable)
                   /\ hist.rpnSrc[k].second = "VARIABLE"
                   /\ m_varTable[i.val + 1].first = hist.rpnSrc[k].first

\* two variables: one bit carries the index of the second slot, and a name
\* that occurs twice carries the index of its first entry both times
C18_Witness ==
    /\ IsInit /\ hist.inits = 1 /\ lastError = "none"
    /\ Len(m_varTable) = 3
    /\ \E k \in 1..Len(m_rpn) : m_rpn[k] = InputBit(Str1("1"), "VARIABLE")
    /\ \E j, k \in 1..Len(m_rpn) :
           j # k /\ m_rpn[j] = m_rpn[k] /\ m_rpn[k].second = "VARIABLE"

\* The sign rule as the specification words it: the '+' or '-' at i is a
\* sign when it is the first character, follows '(' or follows a character
\* that is an operator; * / ^ are operators, '+' and '-' are operators
\* exactly when they are not signs.
RECURSIVE SignRule(_, _)
RECURSIVE OperatorRule(_, _)

SignRule(s, i) ==
    \/ i = 1
    \/ s[i - 1] = "("
    \/ OperatorRule(s, i - 1)

OperatorRule(s, i) ==
    CASE s[i] \in {"*", "/", "^"} -> TRUE
      [] s[i] \in {"+", "-"} -> ~SignRule(s, i)
      [] OTHER -> FALSE

\* C19: at every '-' of the stripped text m_isNumber holds exactly when the
\* '-' is first, follows '(' or follows an operator, and m_isOperator holds
\* exactly when m_isNumber does not
C19_MinusRule ==
    IsInit =>
        \A i \in 1..Len(Stripped) :
            Stripped[i] = "-" =>
                /\ m_isNumber(Stripped, i) <=> SignRule(Stripped, i)
                /\ m_isOperator(Stripped, i) <=> ~SignRule(Stripped, i)

\* a '-' that is a sign because the '-' before it is an operator, scanned
\* into a Number bit after an Operator bit
C19_Witness ==
    /\ IsInit
    /\ \E i \in 3..Len(Stripped) :
           /\ Stripped[i] = "-" /\ Stripped[i - 1] = "-"
           /\ m_isOperator(Stripped, i - 1) /\ m_isNumber(Stripped, i)
    /\ \E k \in 2..Len(m_inputBits) :
           /\ m_inputBits[k - 1] = InputBit(Str1("-"), "OPERATOR")
           /\ m_inputBits[k].second = "NUMBER"
           /\ m_inputBits[k].first[1] = "-"

\* C20 as stated: every '+' of the expression is in an Operator bit
C20_Claim ==
    (IsInit /\ lastError # "BAD_INIT") =>
        \A k \in 1..Len(NewBits) :
            (\E j \in 1..Len(NewBits[k].first) : NewBits[k].first[j] = "+") =>
                NewBits[k].second = "OPERATOR"

\* C21: every NUMBER bit that an accepted init_with_expr appends to
\* m_inputBits is a well-formed numeric literal: an optional single leading
\* '-', digits with at most one '.', and at least one digit (stated for
\* the texts that hold a well-formed literal somewhere)
C21_Claim ==
    (/\ IsInit /\ lastError = "none"
     /\ \E j \in 1..Len(NewBits) :
            NewBits[j].second = "NUMBER" /\ NumberOK(NewBits[j].first)) =>
        \A i \in 1..Len(NewBits) :
            NewBits[i].second = "NUMBER" => NumberOK(NewBits[i].first)

OperatorChars == { "+", "-", "*", "/", "^" }

\* C22: every OPERATOR bit that an accepted init_with_expr appends to
\* m_inputBits is exactly one character, one of + - * / ^ (stated for the
\* texts that start with a well-formed literal)
C22_Claim ==
    (/\ IsInit /\ lastError = "none"
     /\ NewBits # << >>
     /\ NewBits[1].second = "NUMBER" /\ NumberOK(NewBits[1].first)) =>
        \A i \in 1..Len(NewBits) :
            NewBits[i].second = "OPERATOR" =>
                /\ Len(NewBits[i].first) = 1
                /\ NewBits[i].first[1] \in OperatorChars

IsParenthesis(bit) == bit.second \in { "LPARENTHESIS", "RPARENTHESIS" }

\* C23: whenever init_with_expr returns without throwing, m_rpn holds no
\* left parenthesis and no right parenthesis
C23_NoParenthesis ==
    (IsInit /\ lastError = "none") =>
        \A i \in 1..Len(m_rpn) : ~IsParenthesis(m_rpn[i])

\* an accepted text with parentheses around an operation
C23_Witness ==
    /\ IsInit /\ lastError = "none"
    /\ \E i \in 1..Len(NewBits) : NewBits[i].second = "LPARENTHESIS"
    /\ \E i \in 1..Len(NewBits) : NewBits[i].second = "RPARENTHESIS"
    /\ \E i \in 1..Len(m_rpn) : m_rpn[i].second \in { "OPERATOR", "FUNCTION" }

\* C24: the tagging rewrite of m_validate_rpn is idempotent: applied once
\* more to the tagged m_rpn of an accepted text it raises no error and
\* leaves m_rpn as it is
C24_Claim ==
    (IsInit /\ lastError = "none") =>
        LET again == m_validate_rpn(m_rpn, m_varTable) IN
        /\ again.err = "none"
        /\ again.rpn = m_rpn

\* the postfix sequence the last init_with_expr handed to m_validate_rpn
\* holds an unknown name at position i
UnknownAt(i) ==
    /\ hist.rpnSrc[i].second = "FUNCTION"
    /\ m_isFunction(hist.rpnSrc[i].first) = FUNCTION_NONE

\* C25: when the postfix sequence handed to m_validate_rpn holds both a
\* left parenthesis and a Function bit with an unknown name, init_with_expr
\* throws INPUT_EXPR_SYNTAX_ERROR and not UNKNOWN_EXPRESSION, wherever the
\* two stand
C25_SyntaxErrorWins ==
    (/\ IsInit /\ hist.validated
     /\ \E i \in 1..Len(hist.rpnSrc) : hist.rpnSrc[i].second = "LPARENTHESIS"
     /\ \E i \in 1..Len(hist.rpnSrc) : UnknownAt(i)) =>
        lastError = "INPUT_EXPR_SYNTAX_ERROR"

\* the unknown name stands before the left parenthesis
C25_Witness ==
    /\ IsInit /\ hist.validated
    /\ lastError = "INPUT_EXPR_SYNTAX_ERROR"
    /\ \E i, j \in 1..Len(hist.rpnSrc) :
           /\ i < j
           /\ UnknownAt(i)
           /\ hist.rpnSrc[j].second = "LPARENTHESIS"

\* the names of a variable table, in order
TableNames(vt) == [i \in 1..Len(vt) |-> vt[i].first]

\* init_with_expr(input) on an object whose fields are all empty
FreshInit(input) ==
    LET t == m_make_input_bits(input, << >>)
    IN  IF t.err # "none"
        THEN [err |-> t.err, rpn |-> << >>, vt |-> << >>]
        ELSE LET r == m_make_rpn([bits |-> t.inputBits, ops |-> << >>,
                                  out |-> << >>, vt |-> << >>,
                                  err |-> "none"], << >>, << >>)
             IN  [err |-> r.err, rpn |-> r.rpn, vt |-> r.vt]

\* C27: an accepted init_with_expr that follows an accepted init_with_expr
\* leaves the postfix program and the variable table that the same call
\* leaves on a fresh object (stated for two texts that are complete
\* expressions)
C27_Claim ==
    (/\ IsInit /\ hist.prevInitOk /\ lastError = "none"
     /\ WellFormed(hist.pre.rpn)
     /\ WellFormed(FreshInit(m_inputExpr).rpn)) =>
        LET fresh == FreshInit(m_inputExpr) IN
        /\ fresh.err = "none"
        /\ m_rpn = fresh.rpn
        /\ TableNames(m_varTable) = TableNames(fresh.vt)

InitErrors == { "BAD_INIT", "INPUT_EXPR_SYNTAX_ERROR", "UNKNOWN_EXPRESSION" }

\* C28: when init_with_expr throws BAD_INIT, INPUT_EXPR_SYNTAX_ERROR or
\* UNKNOWN_EXPRESSION, m_operatorStack and m_outputQueue are empty
\* afterwards
C28_Claim ==
    (IsInit /\ lastError \in InitErrors) =>
        /\ m_operatorStack = << >>
        /\ m_outputQueue = << >>

\* the bits of a sequence that are no parentheses, in order
NonParenthesis(bits) == SelectSeq(bits, LAMBDA b : ~IsParenthesis(b))

\* how often the bit b occurs in the sequence
Occurrences(bits, b) == Cardinality({ i \in 1..Len(bits) : bits[i] = b })

\* C29: after an accepted init_with_expr on a fresh object the postfix
\* program holds exactly the bits of m_inputBits that are no parentheses,
\* each as often as m_inputBits does, so its length is the number of bits
\* minus the number of parentheses
C29_SameBits ==
    (IsInit /\ hist.inits = 1 /\ lastError = "none") =>
        LET tokens == NonParenthesis(m_inputBits) IN
        /\ Len(m_rpn) = Len(tokens)
        /\ Len(hist.rpnSrc) = Len(tokens)
        /\ \A i \in 1..Len(tokens) :
               Occurrences(hist.rpnSrc, tokens[i]) = Occurrences(tokens, tokens[i])
        /\ \A i \in 1..Len(m_rpn) : m_rpn[i].second = hist.rpnSrc[i].second

\* an accepted text with a parenthesised operator or function
C29_Witness ==
    /\ IsInit /\ hist.inits = 1 /\ lastError = "none"
    /\ Len(m_rpn) >= 2
    /\ Len(m_inputBits) > Len(m_rpn)
    /\ \E i \in 1..Len(m_rpn) : m_rpn[i].second \in { "OPERATOR", "FUNCTION" }

\* the Number and Variable bits of a sequence, in order
Operands(bits) == SelectSeq(bits, LAMBDA b : b.second \in { "NUMBER", "VARIABLE" })

\* C30: after an accepted init_with_expr the Number and Variable bits stand
\* in the postfix program in the order they have in m_inputBits
C30_OperandOrder ==
    (IsInit /\ lastError = "none") =>
        /\ Operands(hist.rpnSrc) = Operands(m_inputBits)
        /\ [i \in 1..Len(Operands(m_rpn)) |-> Operands(m_rpn)[i].second] =
               [i \in 1..Len(Operands(m_inputBits)) |-> Operands(m_inputBits)[i].second]

\* an accepted text with two different operands around an operator
C30_Witness ==
    /\ IsInit /\ lastError = "none"
    /\ Len(NewBits) >= 3
    /\ NewBits[1].second = "VARIABLE"
    /\ NewBits[2].second = "OPERATOR"
    /\ NewBits[3].second = "NUMBER" /\ NumberOK(NewBits[3].first)
    /\ Len(Operands(m_rpn)) >= 2

Scanning == scan_it # 0

\* C26: the scanning loop of m_make_input_bits terminates for every text:
\* whichever branch an iteration takes it moves the iterator forward by at
\* least one character and never past the end, a call of m_isOperator at
\* iterator i makes at most i nested calls, and a scan that has begun ends
C26_Terminates ==
    /\ [][ScanStep => (scan_it' > scan_it /\ scan_it' <= Len(Stripped) + 1)]_vars
    /\ [](Scanning =>
             \A i \in 1..(Len(Stripped) + 1) : IsOperatorCalls(Stripped, i) <= i)
    /\ (Scanning ~> ~Scanning)

\* a finished scan whose iterations took the Variable, the Operator and the
\* Number branch, the last '-' at the deepest recursion of m_isOperator
C26_Witness ==
    /\ IsInit /\ ~Scanning /\ hist.inits = 1
    /\ Len(m_inputBits) = 3
    /\ m_inputBits[1].second = "VARIABLE"
    /\ m_inputBits[2].second = "OPERATOR"
    /\ m_inputBits[3].second = "NUMBER"
    /\ IsOperatorCalls(Stripped, Len(Stripped)) = 3

============================================================================
